---- MODULE Spec2Model ----
(***************************************************************************)
(* Model of the obesity treatment planner: the Gradio handler              *)
(* ModernGradioInterface.generate_treatment_plan (src/app.py), the five    *)
(* stage pipeline ObesityTreatmentCrew.create_treatment_plan (src/crew.py),*)
(* the task constructors (src/tasks/all_tasks.py) and the pure function    *)
(* ModernGradioInterface.calculate_bmi (src/app.py).                       *)
(*                                                                         *)
(* Text is modelled as the set of fragments it contains.  A fragment is a  *)
(* record [kind, run, name]: the rendering of a run's patient record, a    *)
(* literal piece of template text, or the output a stage produced in a run.*)
(* Numbers entered in the form are integers (kg, cm, years); the BMI is    *)
(* kept as the exact fraction weight*10000 / height^2 and compared with    *)
(* the thresholds by cross multiplication.                                 *)
(***************************************************************************)
EXTENDS Integers, Sequences, FiniteSets

\* ------------------------------------------------------------------ bounds
NumRuns == 2            \* concurrent calls of generate_treatment_plan
MaxWeightKg == 120      \* largest weight given to calculate_bmi
MaxHeightDm == 20       \* largest height given to calculate_bmi, in 10 cm

Runs == 1..NumRuns

\* ------------------------------------------------- python values of a field
Num(n) == [tag |-> "num", val |-> n]
NoneVal == [tag |-> "none", val |-> 0]
EmptyStr == [tag |-> "str", val |-> 0]
TextStr == [tag |-> "str", val |-> 1]
\* float('nan'), and the string "nan", which float() accepts
NanVal == [tag |-> "nan", val |-> 1]

\* python truthiness, as used by `not height_cm`
Truthy(x) == IF x.tag = "none" THEN FALSE ELSE x.val # 0

\* float(x) / int(x) raise TypeError on None and ValueError on a non-numeric
\* string
FloatRaises(x) == x.tag \notin {"num", "nan"}

\* ---------------------------------------------------------- calculate_bmi
InvalidBmi == [bmi100 |-> 0, category |-> "Invalid"]

\* stands for the float nan in the bmi100 field
Nan100 == -1

\* bmi < t, for the threshold t = t2 / 2, with bmi = w / (h/100)^2
BmiBelow(w, h, t2) == 2 * w * 10000 < t2 * h * h

\* the chain with the 23.0 boundary put on the wrong side
BmiCategoryOffBoundary(w, h) ==
    IF BmiBelow(w, h, 37) THEN "Underweight"
    ELSE IF 2 * w * 10000 <= 46 * h * h THEN "Normal"
    ELSE IF BmiBelow(w, h, 55) THEN "Overweight"
    ELSE "Obese"

\* the if / elif chain of calculate_bmi (Asian cutoffs)
BmiCategory(w, h) ==
    IF BmiBelow(w, h, 37) THEN "Underweight"
    ELSE IF BmiBelow(w, h, 46) THEN "Normal"
    ELSE IF BmiBelow(w, h, 55) THEN "Overweight"
    ELSE "Obese"

\* round(bmi, 2) in hundredths.  At an exact decimal tie the binary value
\* of the quotient decides, which the integers do not show: tie = 0 rounds
\* it down, tie = 1 rounds it up.
RoundBmi(w, h, tie) ==
    LET d == h * h
        whole == (w * 10000) \div d
        part == ((w * 10000) % d) * 100
        fl == whole * 100 + part \div d
        rem == part % d
    IN  IF 2 * rem < d THEN fl
        ELSE IF 2 * rem > d THEN fl + 1
        ELSE fl + tie

\* every comparison with nan is False: nan passes both `<= 0` guards and all
\* three threshold tests, so the else branch labels it Obese
calculate_bmi(weight_kg, height_cm, tie) ==
    IF weight_kg.tag = "none" \/ weight_kg = EmptyStr THEN InvalidBmi
    ELSE IF FloatRaises(weight_kg) THEN InvalidBmi
    ELSE IF weight_kg.tag = "num" /\ weight_kg.val <= 0 THEN InvalidBmi
    ELSE IF height_cm.tag = "none" \/ height_cm = EmptyStr THEN InvalidBmi
    ELSE IF FloatRaises(height_cm) THEN InvalidBmi
    ELSE IF height_cm.tag = "num" /\ height_cm.val <= 0 THEN InvalidBmi
    ELSE IF weight_kg.tag = "nan" \/ height_cm.tag = "nan"
    THEN [bmi100 |-> Nan100, category |-> "Obese"]
    ELSE [bmi100 |-> RoundBmi(weight_kg.val, height_cm.val, tie),
          category |-> BmiCategory(weight_kg.val, height_cm.val)]

\* ------------------------------------------------------------- text pieces
Lit(s) == [kind |-> "literal", run |-> 0, name |-> s]
PatientFrag(r) == [kind |-> "patient_data", run |-> r, name |-> "patient_data"]
Out(r, s) == [kind |-> "output", run |-> r, name |-> s]
Printed(r) == [kind |-> "print", run |-> r, name |-> "stdout"]

\* ------------------------------------------------------------ the pipeline
\* the task list with the diet task put before the analysis task
TaskOrderDietFirst ==
    <<"diet_plan", "analysis", "medical_evaluation", "fitness_plan",
      "coordination">>

\* tasks=[...] of Crew(...), executed by Process.sequential in list order
TaskOrder ==
    <<"analysis", "diet_plan", "medical_evaluation", "fitness_plan",
      "coordination">>

Stages == {TaskOrder[i] : i \in 1..Len(TaskOrder)}
MiddleStages == {"diet_plan", "medical_evaluation", "fitness_plan"}

\* the stages whose output a stage needs (spec section 3 and 4.3)
Deps(s) ==
    IF s = "analysis" THEN {}
    ELSE IF s \in MiddleStages THEN {"analysis"}
    ELSE {"analysis"} \cup MiddleStages

\* keyword arguments each task constructor passes to str.format
create_analysis_task(r) ==
    [p \in {"patient_data"} |-> PatientFrag(r)]

create_middle_task(r, diagnostic_report) ==
    [p \in {"patient_data", "diagnostic_report"} |->
        IF p = "patient_data" THEN PatientFrag(r) ELSE diagnostic_report]

create_coordination_task(r) ==
    [p \in {"patient_data", "diagnostic_report", "diet_plan",
            "medical_evaluation", "fitness_plan"} |->
        IF p = "patient_data" THEN PatientFrag(r)
        ELSE IF p = "diagnostic_report" THEN Lit("{diagnostic_report}")
        ELSE IF p = "diet_plan" THEN Lit("{diet_plan}")
        ELSE IF p = "medical_evaluation" THEN Lit("{medical_evaluation}")
        ELSE Lit("{fitness_plan}")]

\* the calls of create_treatment_plan: the three middle tasks are given the
\* literal string "{analysis}" as their diagnostic report
TaskArgs(r, s) ==
    IF s = "analysis" THEN create_analysis_task(r)
    ELSE IF s \in MiddleStages THEN create_middle_task(r, Lit("{analysis}"))
    ELSE create_coordination_task(r)

\* what load_tasks_config can hand back: each template references the
\* placeholders its constructor supplies, and the template of at most one
\* task (brokenTask) also references one that no caller supplies
Template(s, broken) ==
    (DOMAIN TaskArgs(1, s)) \cup (IF broken = s THEN {"unsupplied"} ELSE {})

\* a formatter that leaves an unsupplied name in place and never raises
FormatRaisesLenient(template, args) == FALSE

\* config['description'].format(**args): KeyError on an unsupplied name
FormatRaises(template, args) == ~ (template \subseteq DOMAIN args)
Format(template, args) == {args[p] : p \in template \cap DOMAIN args}

\* the context the sequential process hands to the task at position i: the
\* raw output of the task before it, or of all tasks before it, depending on
\* the installed crewai release
Context(r, i, policy) ==
    IF policy = "all" THEN {Out(r, TaskOrder[j]) : j \in 1..(i - 1)}
    ELSE IF i > 1 THEN {Out(r, TaskOrder[i - 1])}
    ELSE {}

\* ------------------------------------------------------------------- state
VARIABLES
    ctxPolicy,    \* "last" or "all": the context rule of the crewai release
    brokenTask,   \* the task whose template cannot be rendered, or "none"
    crew,         \* self.crew: 0 (None) or the run that assigned it
    stdout,       \* sys.stdout: 0 (sys.__stdout__) or the run whose StringIO
    logRows,      \* rows of logs/patient_usage.csv, by run
    pc,           \* position of each call of generate_treatment_plan
    form,         \* the form values a call was made with
    patient,      \* patient_data of the call
    tasks,        \* description of each created task
    stageIdx,     \* number of tasks the crew has finished
    stageInput,   \* description plus context each started task was given
    outputs,      \* the stages that have produced their output
    llmCalls,     \* LLM invocations made by the call
    captured,     \* content of the call's StringIO
    progress,     \* progress checkpoints reported, in percent
    yielded,      \* values the generator has yielded to its caller
    returned,     \* the value of a return statement of the generator
    err,          \* the exception in flight or caught: its message
    failedAt,     \* where that exception was raised
    bmiArgs,      \* arguments of a direct call of calculate_bmi
    bmiRet,       \* its result
    df,           \* PatientDataLoader.df: the rows of the CSV file
    ldCall,       \* the last call made on the data loader
    ldRet,        \* what that call returned or raised
    persistDir,   \* whether the directory ./chroma_db exists
    coll,         \* state of each Chroma collection in that directory
    medical_rag,  \* rag_tool._medical_rag: "None", "unloaded" or "open"
    patient_indexer, \* rag_tool._patient_indexer: "None" or "open"
    toolCall,     \* the RAG tool an agent called last
    toolRet,      \* what that tool returned or raised
    recCall,      \* a call of format_patient_data or log_patient_input
    recRet,       \* what it produced, and the dictionary after the call
    ui            \* the input form: its fields and the BMI it displays

vars ==
    <<ctxPolicy, brokenTask, crew, stdout, logRows, pc, form, patient, tasks,
      stageIdx, stageInput, outputs, llmCalls, captured, progress, yielded,
      returned, err, failedAt, bmiArgs, bmiRet, df, ldCall, ldRet, persistDir,
      coll, medical_rag, patient_indexer, toolCall, toolRet, recCall, recRet,
      ui>>

envVars == <<ctxPolicy, brokenTask>>
bmiVars == <<bmiArgs, bmiRet>>
loaderVars == <<df, ldCall, ldRet>>
ragVars ==
    <<persistDir, coll, medical_rag, patient_indexer, toolCall, toolRet>>
recVars == <<recCall, recRet>>
sideVars == <<bmiVars, loaderVars, ragVars, recVars, ui>>
appVars ==
    <<crew, stdout, logRows, pc, form, patient, tasks, stageIdx, stageInput,
      outputs, llmCalls, captured, progress, yielded, returned, err, failedAt>>

NoForm == [height_cm |-> NoneVal, weight |-> NoneVal, age |-> NoneVal]
NoPatient == [height_cm |-> 0, weight_kg |-> 0, age |-> 0, bmi |-> 0,
              bmi_category |-> "none"]
NoBmiArgs == [weight_kg |-> NoneVal, height_cm |-> NoneVal]
NoBmiRet == [bmi100 |-> 0, category |-> "none"]
NoLdCall == [op |-> "none", index |-> 0, state |-> "", residence_type |-> "",
             bmi_category |-> "", wealth_index |-> "", limit |-> 0]
NoLdRet == [kind |-> "none", patients |-> {}, error |-> ""]

\* no call has been made on the data loader
LoaderIdle == df = <<>> /\ ldCall = NoLdCall /\ ldRet = NoLdRet

Corpora == {"medical_knowledge", "patient_data"}
NoToolRet == [kind |-> "none", corpus |-> "", exc |-> ""]
RagIdle ==
    /\ persistDir = FALSE
    /\ coll = [c \in Corpora |-> "absent"]
    /\ medical_rag = "None"
    /\ patient_indexer = "None"
    /\ toolCall = "none"
    /\ toolRet = NoToolRet

NoRecCall == [op |-> "none", data |-> <<>>]
NoRecRet == [lines |-> <<>>, row |-> <<>>, after |-> <<>>, error |-> ""]
RecIdle == recCall = NoRecCall /\ recRet = NoRecRet

\* the form as create_interface builds it: 5 ft 3.0 in, the hidden height of
\* 160 cm, 75 kg, and the BMI panel written into the page.  The numbers of
\* the form are kept in tenths (of a kilogram, an inch, a centimetre), feet
\* in whole feet.
InitialForm ==
    [weight10 |-> Num(750), feet |-> Num(5), inches10 |-> Num(30),
     height_cm10 |-> Num(1600), bmi100 |-> 2930, category |-> "Overweight"]
UiIdle == ui = InitialForm

\* form values tried by the calls
FormHeights == {NoneVal, Num(-160), Num(160), TextStr}
FormWeights == {Num(0), Num(60), Num(75)}
FormAges == {Num(17), Num(35)}

\* exceptions an LLM invocation can end with
Causes == {"Request timed out.", "provider error"}

Init ==
    /\ ctxPolicy \in {"last", "all"}
    /\ brokenTask \in {"none"} \cup Stages
    /\ crew = 0
    /\ stdout = 0
    /\ logRows = <<>>
    /\ pc = [r \in Runs |-> "idle"]
    /\ form = [r \in Runs |-> NoForm]
    /\ patient = [r \in Runs |-> NoPatient]
    /\ tasks = [r \in Runs |-> [s \in Stages |-> {}]]
    /\ stageIdx = [r \in Runs |-> 0]
    /\ stageInput = [r \in Runs |-> [s \in Stages |-> {}]]
    /\ outputs = [r \in Runs |-> {}]
    /\ llmCalls = [r \in Runs |-> 0]
    /\ captured = [r \in Runs |-> {}]
    /\ progress = [r \in Runs |-> <<>>]
    /\ yielded = [r \in Runs |-> <<>>]
    /\ returned = [r \in Runs |-> "none"]
    /\ err = [r \in Runs |-> "none"]
    /\ failedAt = [r \in Runs |-> "none"]
    /\ bmiArgs = NoBmiArgs
    /\ bmiRet = NoBmiRet
    /\ LoaderIdle
    /\ RagIdle
    /\ RecIdle
    /\ UiIdle

\* print(...): the text goes to whatever sys.stdout is at that moment
WriteStdout(r) ==
    captured' = IF stdout = 0 THEN captured
                ELSE [captured EXCEPT ![stdout] = @ \cup {Printed(r)}]

LoadingMsg == [kind |-> "loading", text |-> {Lit("loading_msg")}, food |-> {},
               logs |-> {}]
ErrorMsg(e) == [kind |-> "error", text |-> {Lit("Error: "), Lit(e)},
                food |-> {}, logs |-> {Lit(e)}]
SummaryMsg(r, result, agent_logs) ==
    [kind |-> "summary",
     text |-> {Lit("Patient Summary"), PatientFrag(r)} \cup result,
     food |-> {Lit("food_recommendations")},
     logs |-> agent_logs]

\* ------------------------------------------------ generate_treatment_plan
\* the call up to its first yield: validation of the form values
Call(r) ==
    /\ pc[r] = "idle"
    /\ \E h \in FormHeights, w \in FormWeights, a \in FormAges :
        /\ form' = [form EXCEPT ![r] =
                        [height_cm |-> h, weight |-> w, age |-> a]]
        /\ IF ~ Truthy(h) \/ ~ Truthy(w) \/ ~ Truthy(a)
           THEN /\ returned' = [returned EXCEPT ![r] = "required_fields"]
                /\ pc' = [pc EXCEPT ![r] = "done"]
                /\ UNCHANGED <<progress, yielded, err, failedAt>>
           ELSE IF FloatRaises(h) \/ FloatRaises(w) \/ FloatRaises(a)
           THEN /\ err' = [err EXCEPT ![r] = "could not convert"]
                /\ failedAt' = [failedAt EXCEPT ![r] = "validation"]
                /\ yielded' = [yielded EXCEPT ![r] =
                                  Append(@, ErrorMsg("could not convert"))]
                /\ pc' = [pc EXCEPT ![r] = "done"]
                /\ UNCHANGED <<progress, returned>>
           ELSE IF h.val <= 0 \/ w.val <= 0 \/ a.val < 18
           THEN /\ returned' = [returned EXCEPT ![r] = "invalid_values"]
                /\ pc' = [pc EXCEPT ![r] = "done"]
                /\ UNCHANGED <<progress, yielded, err, failedAt>>
           ELSE /\ progress' = [progress EXCEPT ![r] = Append(@, 5)]
                /\ yielded' = [yielded EXCEPT ![r] = Append(@, LoadingMsg)]
                /\ pc' = [pc EXCEPT ![r] = "loading"]
                /\ UNCHANGED <<returned, err, failedAt>>
    /\ UNCHANGED <<envVars, sideVars, crew, stdout, logRows, patient, tasks,
                   stageIdx, stageInput, outputs, llmCalls, captured>>

\* _ensure_initialized: the test `self.crew is None`
EnsureCheck(r) ==
    /\ pc[r] = "loading"
    /\ IF crew = 0
       THEN /\ WriteStdout(r)
            /\ pc' = [pc EXCEPT ![r] = "creating"]
       ELSE /\ pc' = [pc EXCEPT ![r] = "initialized"]
            /\ UNCHANGED captured
    /\ UNCHANGED <<envVars, sideVars, crew, stdout, logRows, form, patient,
                   tasks, stageIdx, stageInput, outputs, llmCalls, progress,
                   yielded, returned, err, failedAt>>

\* _ensure_initialized: self.crew = ObesityTreatmentCrew()
EnsureAssign(r) ==
    /\ pc[r] = "creating"
    /\ crew' = r
    /\ WriteStdout(r)
    /\ pc' = [pc EXCEPT ![r] = "initialized"]
    /\ UNCHANGED <<envVars, sideVars, stdout, logRows, form, patient, tasks,
                   stageIdx, stageInput, outputs, llmCalls, progress, yielded,
                   returned, err, failedAt>>

\* calculate_bmi, the patient_data dictionary, log_patient_input
BuildPatient(r) ==
    /\ pc[r] = "initialized"
    /\ \E tie \in {0, 1} :
        LET b == calculate_bmi(form[r].weight, form[r].height_cm, tie)
        IN  IF b.bmi100 = 0
            THEN /\ returned' = [returned EXCEPT ![r] = "invalid_bmi"]
                 /\ pc' = [pc EXCEPT ![r] = "done"]
                 /\ UNCHANGED <<patient, logRows, captured, progress>>
            ELSE /\ patient' = [patient EXCEPT ![r] =
                        [height_cm |-> form[r].height_cm.val,
                         weight_kg |-> form[r].weight.val,
                         age |-> form[r].age.val,
                         bmi |-> b.bmi100,
                         bmi_category |-> b.category]]
                 /\ logRows' = Append(logRows, r)
                 /\ WriteStdout(r)
                 /\ progress' = [progress EXCEPT ![r] = @ \o <<10, 30>>]
                 /\ pc' = [pc EXCEPT ![r] = "built"]
                 /\ UNCHANGED returned
    /\ UNCHANGED <<envVars, sideVars, crew, stdout, form, tasks, stageIdx,
                   stageInput, outputs, llmCalls, yielded, err, failedAt>>

\* captured_output = StringIO(); sys.stdout = captured_output
Redirect(r) ==
    /\ pc[r] = "built"
    /\ stdout' = r
    /\ pc' = [pc EXCEPT ![r] = "redirected"]
    /\ UNCHANGED <<envVars, sideVars, crew, logRows, form, patient, tasks,
                   stageIdx, stageInput, outputs, llmCalls, captured,
                   progress, yielded, returned, err, failedAt>>

\* --------------------------------------------------- create_treatment_plan
\* position of the first task whose template cannot be rendered, 0 if none
FirstUnrendered(r) ==
    LET bad == {i \in 1..Len(TaskOrder) :
                    FormatRaises(Template(TaskOrder[i], brokenTask),
                                 TaskArgs(r, TaskOrder[i]))}
    IN  IF bad = {} THEN 0
        ELSE CHOOSE i \in bad : \A j \in bad : i <= j

\* a constructor that swallows the KeyError and lets the crew start with the
\* tasks that did render
CreateTasksDegrade(r) ==
    /\ pc[r] = "redirected"
    /\ WriteStdout(r)
    /\ LET k == FirstUnrendered(r)
       IN  /\ tasks' = [tasks EXCEPT ![r] =
                [s \in Stages |->
                    IF k = 0 \/ (\E i \in 1..(k - 1) : TaskOrder[i] = s)
                    THEN Format(Template(s, brokenTask), TaskArgs(r, s))
                    ELSE {}]]
           /\ pc' = [pc EXCEPT ![r] = "kickoff"]
           /\ IF k = 0
              THEN UNCHANGED <<err, failedAt>>
              ELSE /\ err' = [err EXCEPT ![r] = "KeyError"]
                   /\ failedAt' = [failedAt EXCEPT ![r] = "render"]
    /\ UNCHANGED <<envVars, sideVars, crew, stdout, logRows, form, patient,
                   stageIdx, stageInput, outputs, llmCalls, progress, yielded,
                   returned>>

\* the banner, then the five create_*_task calls, then Crew(...)
CreateTasks(r) ==
    /\ pc[r] = "redirected"
    /\ WriteStdout(r)
    /\ LET k == FirstUnrendered(r)
       IN  /\ tasks' = [tasks EXCEPT ![r] =
                [s \in Stages |->
                    IF k = 0 \/ (\E i \in 1..(k - 1) : TaskOrder[i] = s)
                    THEN Format(Template(s, brokenTask), TaskArgs(r, s))
                    ELSE {}]]
           /\ IF k = 0
              THEN /\ pc' = [pc EXCEPT ![r] = "kickoff"]
                   /\ UNCHANGED <<err, failedAt>>
              ELSE /\ err' = [err EXCEPT ![r] = "KeyError"]
                   /\ failedAt' = [failedAt EXCEPT ![r] = "render"]
                   /\ pc' = [pc EXCEPT ![r] = "raised"]
    /\ UNCHANGED <<envVars, sideVars, crew, stdout, logRows, form, patient,
                   stageIdx, stageInput, outputs, llmCalls, progress, yielded,
                   returned>>

\* crew.kickoff(): the next task of the list is handed to its agent, which
\* calls the LLM with the task description and the context
StageStart(r) ==
    /\ pc[r] = "kickoff"
    /\ stageIdx[r] < Len(TaskOrder)
    /\ LET i == stageIdx[r] + 1
           s == TaskOrder[i]
       IN  stageInput' = [stageInput EXCEPT ![r][s] =
                             tasks[r][s] \cup Context(r, i, ctxPolicy)]
    /\ llmCalls' = [llmCalls EXCEPT ![r] = @ + 1]
    /\ WriteStdout(r)
    /\ pc' = [pc EXCEPT ![r] = "running"]
    /\ UNCHANGED <<envVars, sideVars, crew, stdout, logRows, form, patient,
                   tasks, stageIdx, outputs, progress, yielded, returned, err,
                   failedAt>>

\* the LLM answers: the task has its output; after the last task kickoff
\* returns, create_treatment_plan returns and progress(1.0) is reported
StageFinish(r) ==
    /\ pc[r] = "running"
    /\ outputs' = [outputs EXCEPT ![r] = @ \cup {TaskOrder[stageIdx[r] + 1]}]
    /\ stageIdx' = [stageIdx EXCEPT ![r] = @ + 1]
    /\ WriteStdout(r)
    /\ IF stageIdx[r] + 1 = Len(TaskOrder)
       THEN /\ progress' = [progress EXCEPT ![r] = Append(@, 100)]
            /\ pc' = [pc EXCEPT ![r] = "returned"]
       ELSE /\ pc' = [pc EXCEPT ![r] = "kickoff"]
            /\ UNCHANGED progress
    /\ UNCHANGED <<envVars, sideVars, crew, stdout, logRows, form, patient,
                   tasks, stageInput, llmCalls, yielded, returned, err,
                   failedAt>>

\* a crew that notes the failure of a task and goes on with the next one
StageFailSwallowed(r) ==
    /\ pc[r] = "running"
    /\ \E c \in Causes : err' = [err EXCEPT ![r] = c]
    /\ failedAt' = [failedAt EXCEPT ![r] = TaskOrder[stageIdx[r] + 1]]
    /\ stageIdx' = [stageIdx EXCEPT ![r] = @ + 1]
    /\ pc' = [pc EXCEPT ![r] = IF stageIdx[r] + 1 = Len(TaskOrder)
                                THEN "raised" ELSE "kickoff"]
    /\ UNCHANGED <<envVars, sideVars, crew, stdout, logRows, form, patient,
                   tasks, stageInput, outputs, llmCalls, captured,
                   progress, yielded, returned>>

\* the LLM invocation fails: the exception leaves kickoff and
\* create_treatment_plan
StageFail(r) ==
    /\ pc[r] = "running"
    /\ \E c \in Causes : err' = [err EXCEPT ![r] = c]
    /\ failedAt' = [failedAt EXCEPT ![r] = TaskOrder[stageIdx[r] + 1]]
    /\ pc' = [pc EXCEPT ![r] = "raised"]
    /\ UNCHANGED <<envVars, sideVars, crew, stdout, logRows, form, patient,
                   tasks, stageIdx, stageInput, outputs, llmCalls, captured,
                   progress, yielded, returned>>

\* a result made of the outputs of all the tasks that ran
KickoffResultAllOutputs(r) == {Out(r, s) : s \in outputs[r]}

\* result = crew.kickoff(); return result: str(result) is the raw output of
\* the last task of the list
KickoffResult(r) == {Out(r, TaskOrder[Len(TaskOrder)])}

\* a handler that reports completion in the finally block
RestoreReportsComplete(r) ==
    /\ pc[r] \in {"returned", "raised"}
    /\ stdout' = 0
    /\ progress' = [progress EXCEPT ![r] =
                        IF pc[r] = "raised" THEN Append(@, 100) ELSE @]
    /\ pc' = [pc EXCEPT ![r] = IF pc[r] = "returned" THEN "restored"
                                ELSE "caught"]
    /\ UNCHANGED <<envVars, sideVars, crew, logRows, form, patient, tasks,
                   stageIdx, stageInput, outputs, llmCalls, captured,
                   yielded, returned, err, failedAt>>

\* a handler that restores the stream after the call instead of in a finally
\* block
RestoreOnlyOnSuccess(r) ==
    /\ pc[r] \in {"returned", "raised"}
    /\ stdout' = IF pc[r] = "returned" THEN 0 ELSE stdout
    /\ pc' = [pc EXCEPT ![r] = IF pc[r] = "returned" THEN "restored"
                                ELSE "caught"]
    /\ UNCHANGED <<envVars, sideVars, crew, logRows, form, patient, tasks,
                   stageIdx, stageInput, outputs, llmCalls, captured,
                   progress, yielded, returned, err, failedAt>>

\* finally: sys.stdout = sys.__stdout__
Restore(r) ==
    /\ pc[r] \in {"returned", "raised"}
    /\ stdout' = 0
    /\ pc' = [pc EXCEPT ![r] = IF pc[r] = "returned" THEN "restored"
                                ELSE "caught"]
    /\ UNCHANGED <<envVars, sideVars, crew, logRows, form, patient, tasks,
                   stageIdx, stageInput, outputs, llmCalls, captured,
                   progress, yielded, returned, err, failedAt>>

\* agent_logs = captured_output.getvalue(); treatment_plan = str(result);
\* yield summary, food_recommendations, agent_logs
YieldSummary(r) ==
    /\ pc[r] = "restored"
    /\ yielded' = [yielded EXCEPT ![r] =
            Append(@, SummaryMsg(r, KickoffResult(r), captured[r]))]
    /\ pc' = [pc EXCEPT ![r] = "done"]
    /\ UNCHANGED <<envVars, sideVars, crew, stdout, logRows, form, patient,
                   tasks, stageIdx, stageInput, outputs, llmCalls, captured,
                   progress, returned, err, failedAt>>

\* except Exception as e: yield error_msg, "", str(e)
YieldError(r) ==
    /\ pc[r] = "caught"
    /\ yielded' = [yielded EXCEPT ![r] = Append(@, ErrorMsg(err[r]))]
    /\ pc' = [pc EXCEPT ![r] = "done"]
    /\ UNCHANGED <<envVars, sideVars, crew, stdout, logRows, form, patient,
                   tasks, stageIdx, stageInput, outputs, llmCalls, captured,
                   progress, returned, err, failedAt>>

\* interface.queue(): the click event has one worker, so a call starts only
\* when no other call is in progress
QueuedCall(r) ==
    /\ \A q \in Runs \ {r} : pc[q] \in {"idle", "done"}
    /\ Call(r)

Next ==
    \E r \in Runs :
        \/ QueuedCall(r)
        \/ EnsureCheck(r)
        \/ EnsureAssign(r)
        \/ BuildPatient(r)
        \/ Redirect(r)
        \/ CreateTasks(r)
        \/ StageStart(r)
        \/ StageFinish(r)
        \/ StageFail(r)
        \/ Restore(r)
        \/ YieldSummary(r)
        \/ YieldError(r)

Spec == Init /\ [][Next]_vars

\* ChatOpenAI(model=..., temperature=0.7): no timeout is passed, and Agent(...)
\* gets no max_execution_time
request_timeout == NoneVal

\* one call of generate_treatment_plan followed to its end
NextLive ==
    \/ Call(1)
    \/ EnsureCheck(1)
    \/ EnsureAssign(1)
    \/ BuildPatient(1)
    \/ Redirect(1)
    \/ CreateTasks(1)
    \/ StageStart(1)
    \/ StageFinish(1)
    \/ StageFail(1)
    \/ Restore(1)
    \/ YieldSummary(1)
    \/ YieldError(1)

\* the interpreter runs every step of the handler that is enabled; the answer
\* of the LLM, or the failure of the call, is bound to come only when the call
\* has a timeout
CodeFairness ==
    /\ WF_vars(EnsureCheck(1))
    /\ WF_vars(EnsureAssign(1))
    /\ WF_vars(BuildPatient(1))
    /\ WF_vars(Redirect(1))
    /\ WF_vars(CreateTasks(1))
    /\ WF_vars(StageStart(1))
    /\ WF_vars(Restore(1))
    /\ WF_vars(YieldSummary(1))
    /\ WF_vars(YieldError(1))

LlmFairness ==
    IF request_timeout = NoneVal THEN TRUE
    ELSE WF_vars(StageFinish(1) \/ StageFail(1))

SpecLive == Init /\ [][NextLive]_vars /\ CodeFairness /\ LlmFairness

\* two calls of generate_treatment_plan running at the same time, as when the
\* method is served by more than one worker
ConcurrentRuns == {1, 2}

NextConcurrent ==
    \E r \in ConcurrentRuns :
        \/ Call(r)
        \/ EnsureCheck(r)
        \/ EnsureAssign(r)
        \/ BuildPatient(r)
        \/ Redirect(r)
        \/ CreateTasks(r)
        \/ StageStart(r)
        \/ StageFinish(r)
        \/ StageFail(r)
        \/ Restore(r)
        \/ YieldSummary(r)
        \/ YieldError(r)

SpecConcurrent == Init /\ [][NextConcurrent]_vars

\* ------------------------------------------- calculate_bmi called directly
BmiWeights ==
    {NoneVal, EmptyStr, TextStr, NanVal}
        \cup {Num(n) : n \in (-1)..MaxWeightKg}
BmiHeights ==
    {NoneVal, EmptyStr, TextStr, NanVal, Num(0), Num(-160)}
        \cup {Num(10 * d) : d \in 10..MaxHeightDm}
        \cup {Num(116), Num(174), Num(186)}

InitBmi ==
    /\ ctxPolicy = "last"
    /\ brokenTask = "none"
    /\ crew = 0
    /\ stdout = 0
    /\ logRows = <<>>
    /\ pc = [r \in Runs |-> "idle"]
    /\ form = [r \in Runs |-> NoForm]
    /\ patient = [r \in Runs |-> NoPatient]
    /\ tasks = [r \in Runs |-> [s \in Stages |-> {}]]
    /\ stageIdx = [r \in Runs |-> 0]
    /\ stageInput = [r \in Runs |-> [s \in Stages |-> {}]]
    /\ outputs = [r \in Runs |-> {}]
    /\ llmCalls = [r \in Runs |-> 0]
    /\ captured = [r \in Runs |-> {}]
    /\ progress = [r \in Runs |-> <<>>]
    /\ yielded = [r \in Runs |-> <<>>]
    /\ returned = [r \in Runs |-> "none"]
    /\ err = [r \in Runs |-> "none"]
    /\ failedAt = [r \in Runs |-> "none"]
    /\ \E w \in BmiWeights, h \in BmiHeights :
           bmiArgs = [weight_kg |-> w, height_cm |-> h]
    /\ bmiRet = NoBmiRet
    /\ LoaderIdle
    /\ RagIdle
    /\ RecIdle
    /\ UiIdle

CalculateBmi ==
    /\ bmiRet = NoBmiRet
    /\ \E tie \in {0, 1} :
           bmiRet' = calculate_bmi(bmiArgs.weight_kg, bmiArgs.height_cm, tie)
    /\ UNCHANGED <<envVars, appVars, loaderVars, ragVars, recVars, ui, bmiArgs>>

NextBmi == CalculateBmi

SpecBmi == InitBmi /\ [][NextBmi]_vars

\* =========================================================== the data loader
\* STATE_MAPPING, RESIDENCE_MAPPING, WEALTH_MAPPING: code -> label
STATE_MAPPING ==
    <<"Andhra Pradesh", "Arunachal Pradesh", "Assam", "Bihar",
        "Chhattisgarh", "Goa", "Gujarat", "Haryana", "Himachal Pradesh",
        "Jharkhand", "Karnataka", "Kerala", "Madhya Pradesh", "Maharashtra",
        "Manipur", "Meghalaya", "Mizoram", "Nagaland", "Odisha", "Punjab",
        "Rajasthan", "Sikkim", "Tamil Nadu", "Telangana", "Tripura",
        "Uttar Pradesh", "Uttarakhand", "West Bengal", "Delhi",
        "Jammu & Kashmir", "Ladakh", "Andaman & Nicobar", "Chandigarh",
        "Dadra & Nagar Haveli", "Lakshadweep", "Puducherry">>

RESIDENCE_MAPPING == <<"Urban", "Rural">>

WEALTH_MAPPING == <<"Poorest", "Poorer", "Middle", "Richer", "Richest">>

\* the code of a missing cell (pandas NaN)
NaNCode == -1

\* str.lower() on the strings the model uses
LowerPairs ==
    {<<"Andhra Pradesh", "andhra pradesh">>,
        <<"Arunachal Pradesh", "arunachal pradesh">>, <<"Assam", "assam">>,
        <<"Bihar", "bihar">>, <<"Chhattisgarh", "chhattisgarh">>,
        <<"Goa", "goa">>, <<"Gujarat", "gujarat">>,
        <<"Haryana", "haryana">>,
        <<"Himachal Pradesh", "himachal pradesh">>,
        <<"Jharkhand", "jharkhand">>, <<"Karnataka", "karnataka">>,
        <<"Kerala", "kerala">>, <<"Madhya Pradesh", "madhya pradesh">>,
        <<"Maharashtra", "maharashtra">>, <<"Manipur", "manipur">>,
        <<"Meghalaya", "meghalaya">>, <<"Mizoram", "mizoram">>,
        <<"Nagaland", "nagaland">>, <<"Odisha", "odisha">>,
        <<"Punjab", "punjab">>, <<"Rajasthan", "rajasthan">>,
        <<"Sikkim", "sikkim">>, <<"Tamil Nadu", "tamil nadu">>,
        <<"Telangana", "telangana">>, <<"Tripura", "tripura">>,
        <<"Uttar Pradesh", "uttar pradesh">>,
        <<"Uttarakhand", "uttarakhand">>, <<"West Bengal", "west bengal">>,
        <<"Delhi", "delhi">>, <<"Jammu & Kashmir", "jammu & kashmir">>,
        <<"Ladakh", "ladakh">>,
        <<"Andaman & Nicobar", "andaman & nicobar">>,
        <<"Chandigarh", "chandigarh">>,
        <<"Dadra & Nagar Haveli", "dadra & nagar haveli">>,
        <<"Lakshadweep", "lakshadweep">>, <<"Puducherry", "puducherry">>,
        <<"Urban", "urban">>, <<"Rural", "rural">>,
        <<"Poorest", "poorest">>, <<"Poorer", "poorer">>,
        <<"Middle", "middle">>, <<"Richer", "richer">>,
        <<"Richest", "richest">>, <<"Underweight", "underweight">>,
        <<"Normal", "normal">>, <<"Overweight", "overweight">>,
        <<"Obese", "obese">>, <<"Unknown", "unknown">>,
        <<"Atlantis", "atlantis">>, <<"Suburban", "suburban">>,
        <<"MAHARASHTRA", "maharashtra">>, <<"urban", "urban">>,
        <<"obese", "obese">>, <<"middle", "middle">>,
        <<"andaman & nicobar", "andaman & nicobar">>,
        <<"andhra pradesh", "andhra pradesh">>,
        <<"arunachal pradesh", "arunachal pradesh">>, <<"assam", "assam">>,
        <<"atlantis", "atlantis">>, <<"bihar", "bihar">>,
        <<"chandigarh", "chandigarh">>, <<"chhattisgarh", "chhattisgarh">>,
        <<"dadra & nagar haveli", "dadra & nagar haveli">>,
        <<"delhi", "delhi">>, <<"goa", "goa">>, <<"gujarat", "gujarat">>,
        <<"haryana", "haryana">>,
        <<"himachal pradesh", "himachal pradesh">>,
        <<"jammu & kashmir", "jammu & kashmir">>,
        <<"jharkhand", "jharkhand">>, <<"karnataka", "karnataka">>,
        <<"kerala", "kerala">>, <<"ladakh", "ladakh">>,
        <<"lakshadweep", "lakshadweep">>,
        <<"madhya pradesh", "madhya pradesh">>,
        <<"maharashtra", "maharashtra">>, <<"manipur", "manipur">>,
        <<"meghalaya", "meghalaya">>, <<"mizoram", "mizoram">>,
        <<"nagaland", "nagaland">>, <<"normal", "normal">>,
        <<"odisha", "odisha">>, <<"overweight", "overweight">>,
        <<"poorer", "poorer">>, <<"poorest", "poorest">>,
        <<"puducherry", "puducherry">>, <<"punjab", "punjab">>,
        <<"rajasthan", "rajasthan">>, <<"richer", "richer">>,
        <<"richest", "richest">>, <<"rural", "rural">>,
        <<"sikkim", "sikkim">>, <<"suburban", "suburban">>,
        <<"tamil nadu", "tamil nadu">>, <<"telangana", "telangana">>,
        <<"tripura", "tripura">>, <<"underweight", "underweight">>,
        <<"unknown", "unknown">>, <<"uttar pradesh", "uttar pradesh">>,
        <<"uttarakhand", "uttarakhand">>, <<"west bengal", "west bengal">>}

\* str.lower() as a table over the words above
LowerTable ==
    [w \in {p[1] : p \in LowerPairs} |->
        (CHOOSE p \in LowerPairs : p[1] = w)[2]]

Lower(s) == LowerTable[s]

\* dict.get(code, "Unknown") on a mapping whose keys are 1..Len(mapping)
MappingGet(mapping, code) ==
    IF code \in 1..Len(mapping) THEN mapping[code] ELSE "Unknown"

\* int(row[c]) if pd.notna(row[c]) else 0
CodeOrZero(cell) == IF cell = NaNCode THEN 0 ELSE cell

\* ------------------------------------------------------------------ bounds
MaxRows == 3            \* largest number of rows of the CSV file
MaxFields == 3          \* largest number of fields of a patient dictionary
MaxRowsShared == 1      \* rows of the CSV file when lookups and retrievals mix

\* rows the file can hold: mapped codes, the unmapped codes 99 and 3, and
\* missing cells
Row(st, ur, wi, cat) ==
    [State |-> st, Urban_Rural |-> ur, Wealth_Index |-> wi,
     BMI_Category |-> cat]

RawRows ==
    {Row(14, 1, 3, "Obese"), Row(12, 2, 5, "Normal"), Row(99, 1, 3, "Obese"),
     Row(14, 3, 3, "Obese"), Row(14, 1, NaNCode, "Overweight"),
     Row(NaNCode, 2, 3, "Obese")}

Datasets == UNION {[1..n -> RawRows] : n \in 0..MaxRows}

\* filter values tried; "" stands for an argument left at None
StateFilters == {"", "maharashtra", "Atlantis", "Unknown"}
ResidenceFilters == {"", "Urban", "Suburban"}
BmiFilters == {"", "obese"}
WealthFilters == {"", "Middle", "Unknown"}
Limits == {1, 2}

\* _format_patient_data: idx is row.name, the 0-based label of the row
FormatPatientData(idx, row) ==
    [patient_id |-> idx,
     state |-> MappingGet(STATE_MAPPING, CodeOrZero(row.State)),
     residence_type |->
         MappingGet(RESIDENCE_MAPPING, CodeOrZero(row.Urban_Rural)),
     wealth_index |-> MappingGet(WEALTH_MAPPING, CodeOrZero(row.Wealth_Index)),
     bmi_category |-> row.BMI_Category]

\* the loop `for code, name in mapping.items(): if name.lower() ==
\* value.lower(): ...; break`: the first matching code, 0 for None
FindCode(mapping, value) ==
    LET lowered == Lower(value)
        hits == {c \in 1..Len(mapping) : Lower(mapping[c]) = lowered}
    IN  IF hits = {} THEN 0 ELSE CHOOSE c \in hits : \A e \in hits : c <= e

\* the four `if <filter>:` blocks of get_patients_by_criteria: positions of
\* the rows left in filtered_df
FilteredRows(d, c) ==
    LET state_code ==
            IF c.state = "" THEN 0 ELSE FindCode(STATE_MAPPING, c.state)
        res_code ==
            IF c.residence_type = "" THEN 0
            ELSE IF Lower(c.residence_type) = "urban" THEN 1 ELSE 2
        bmi_lower ==
            IF c.bmi_category = "" THEN "" ELSE Lower(c.bmi_category)
        wealth_code ==
            IF c.wealth_index = "" THEN 0
            ELSE FindCode(WEALTH_MAPPING, c.wealth_index)
    IN  {i \in 1..Len(d) :
            /\ state_code # 0 => d[i].State = state_code
            /\ res_code # 0 => d[i].Urban_Rural = res_code
            /\ bmi_lower # "" => Lower(d[i].BMI_Category) = bmi_lower
            /\ wealth_code # 0 => d[i].Wealth_Index = wealth_code}

LdOk(ps) == [kind |-> "ok", patients |-> ps, error |-> ""]
LdError(e) == [kind |-> "error", patients |-> {}, error |-> e]

\* get_patient_by_index with the upper bound test off by one; iloc then
\* raises its own IndexError
get_patient_by_index_OffByOne(d, index) ==
    IF index < 0 \/ index > Len(d) THEN LdError("out of range")
    ELSE IF index = Len(d) THEN LdError("IndexError")
    ELSE LdOk({FormatPatientData(index, d[index + 1])})

get_patient_by_index(d, index) ==
    IF index < 0 \/ index >= Len(d) THEN LdError("out of range")
    ELSE LdOk({FormatPatientData(index, d[index + 1])})

GetPatientByIndex ==
    /\ ldRet = NoLdRet
    /\ \E index \in (-1)..(MaxRows + 1) :
        /\ ldCall' = [NoLdCall EXCEPT !.op = "by_index", !.index = index]
        /\ ldRet' = get_patient_by_index(df, index)
    /\ UNCHANGED <<envVars, appVars, bmiVars, ragVars, recVars, ui, df>>

\* a lookup that takes the sampled row out of the frame
GetRandomPatientTakesRow ==
    /\ ldRet = NoLdRet
    /\ ldCall' = [NoLdCall EXCEPT !.op = "random"]
    /\ IF Len(df) = 0
       THEN ldRet' = LdError("cannot sample") /\ df' = df
       ELSE \E i \in 1..Len(df) :
                /\ ldRet' = LdOk({FormatPatientData(i - 1, df[i])})
                /\ df' = [j \in 1..(Len(df) - 1) |->
                              IF j < i THEN df[j] ELSE df[j + 1]]
    /\ UNCHANGED <<envVars, appVars, bmiVars, ragVars, recVars, ui>>

\* df.sample(n=1) raises ValueError on an empty frame
GetRandomPatient ==
    /\ ldRet = NoLdRet
    /\ ldCall' = [NoLdCall EXCEPT !.op = "random"]
    /\ IF Len(df) = 0
       THEN ldRet' = LdError("cannot sample")
       ELSE \E i \in 1..Len(df) :
                ldRet' = LdOk({FormatPatientData(i - 1, df[i])})
    /\ UNCHANGED <<envVars, appVars, bmiVars, ragVars, recVars, ui, df>>

GetPatientsByCriteria ==
    /\ ldRet = NoLdRet
    /\ \E st \in StateFilters, rt \in ResidenceFilters, bc \in BmiFilters,
          wi \in WealthFilters, limit \in Limits :
        LET c == [NoLdCall EXCEPT !.op = "by_criteria", !.state = st,
                      !.residence_type = rt, !.bmi_category = bc,
                      !.wealth_index = wi, !.limit = limit]
            kept == FilteredRows(df, c)
        IN  /\ ldCall' = c
            /\ \E sample \in SUBSET kept :
                /\ IF Cardinality(kept) > limit
                   THEN Cardinality(sample) = limit
                   ELSE sample = kept
                /\ ldRet' = LdOk({FormatPatientData(i - 1, df[i]) :
                                    i \in sample})
    /\ UNCHANGED <<envVars, appVars, bmiVars, ragVars, recVars, ui, df>>

\* PatientDataIndexer.create_patient_documents on the same file: int() of a
\* missing cell raises ValueError
CreatePatientDocuments ==
    /\ ldRet = NoLdRet
    /\ ldCall' = [NoLdCall EXCEPT !.op = "create_patient_documents"]
    /\ IF \E i \in 1..Len(df) :
              NaNCode \in {df[i].State, df[i].Urban_Rural, df[i].Wealth_Index}
       THEN ldRet' = LdError("cannot convert float NaN to integer")
       ELSE ldRet' = LdOk({[patient_id |-> i - 1,
                             state |-> MappingGet(STATE_MAPPING, df[i].State),
                             residence_type |->
                                 MappingGet(RESIDENCE_MAPPING,
                                            df[i].Urban_Rural),
                             wealth_index |->
                                 MappingGet(WEALTH_MAPPING,
                                            df[i].Wealth_Index),
                             bmi_category |-> df[i].BMI_Category] :
                            i \in 1..Len(df)})
    /\ UNCHANGED <<envVars, appVars, bmiVars, ragVars, recVars, ui, df>>

\* the caller takes the result; the loader keeps no state besides df
LoaderReturn ==
    /\ ldRet # NoLdRet
    /\ ldCall' = NoLdCall
    /\ ldRet' = NoLdRet
    /\ UNCHANGED <<envVars, appVars, bmiVars, ragVars, recVars, ui, df>>

\* no call of generate_treatment_plan has been made
AppIdle ==
    /\ ctxPolicy = "last"
    /\ brokenTask = "none"
    /\ crew = 0
    /\ stdout = 0
    /\ logRows = <<>>
    /\ pc = [r \in Runs |-> "idle"]
    /\ form = [r \in Runs |-> NoForm]
    /\ patient = [r \in Runs |-> NoPatient]
    /\ tasks = [r \in Runs |-> [s \in Stages |-> {}]]
    /\ stageIdx = [r \in Runs |-> 0]
    /\ stageInput = [r \in Runs |-> [s \in Stages |-> {}]]
    /\ outputs = [r \in Runs |-> {}]
    /\ llmCalls = [r \in Runs |-> 0]
    /\ captured = [r \in Runs |-> {}]
    /\ progress = [r \in Runs |-> <<>>]
    /\ yielded = [r \in Runs |-> <<>>]
    /\ returned = [r \in Runs |-> "none"]
    /\ err = [r \in Runs |-> "none"]
    /\ failedAt = [r \in Runs |-> "none"]

\* PatientDataLoader(): load_data reads the file
InitLoader ==
    /\ AppIdle
    /\ bmiArgs = NoBmiArgs
    /\ bmiRet = NoBmiRet
    /\ df \in Datasets
    /\ ldCall = NoLdCall
    /\ ldRet = NoLdRet
    /\ RagIdle
    /\ RecIdle
    /\ UiIdle

NextLoader ==
    \/ GetPatientByIndex
    \/ GetRandomPatient
    \/ GetPatientsByCriteria
    \/ CreatePatientDocuments
    \/ LoaderReturn

SpecLoader == InitLoader /\ [][NextLoader]_vars

\* ---------------------------------------------------------- the RAG tools
\* outcomes of a retrieval, and an exception on its way out
Results(c) == [kind |-> "results", corpus |-> c, exc |-> ""]
NotFound(c) == [kind |-> "not_found", corpus |-> c, exc |-> ""]
Exc(c, e) == [kind |-> "exception", corpus |-> c, exc |-> e]

\* Chroma(collection_name=c, ...): the client gets or creates the collection,
\* so a collection that was absent is there afterwards, empty
Opened(state) == IF state = "absent" THEN "empty" ELSE state

\* get_medical_rag(): the singleton is assigned before it is loaded; only a
\* missing directory (FileNotFoundError) makes it build the knowledge base.
\* ctorOk, buildOk: whether the embedding model loads, and embeds the
\* documents; dirMade: whether a failed build had made the directory already
get_medical_rag(ctorOk, buildOk, dirMade) ==
    LET med == coll["medical_knowledge"]
    IN  IF medical_rag # "None"
        THEN [rag |-> medical_rag, dir |-> persistDir, med |-> med, exc |-> ""]
        ELSE IF ~ ctorOk
        THEN [rag |-> "None", dir |-> persistDir, med |-> med,
              exc |-> "EmbeddingError"]
        ELSE IF persistDir
        THEN [rag |-> "open", dir |-> TRUE, med |-> Opened(med), exc |-> ""]
        ELSE IF buildOk
        THEN [rag |-> "open", dir |-> TRUE, med |-> "built", exc |-> ""]
        ELSE [rag |-> "unloaded", dir |-> dirMade,
              med |-> IF dirMade THEN "empty" ELSE "absent",
              exc |-> "EmbeddingError"]

\* get_medical_context(query, rag, k) on what get_medical_rag handed back
get_medical_context(g, queryOk) ==
    IF g.exc # "" THEN Exc("medical_knowledge", g.exc)
    ELSE IF g.rag = "unloaded" THEN Exc("medical_knowledge", "ValueError")
    ELSE IF ~ queryOk THEN Exc("medical_knowledge", "EmbeddingError")
    ELSE IF g.med = "built" THEN Results("medical_knowledge")
    ELSE NotFound("medical_knowledge")

\* a tool body without the handler: the exception leaves the tool
ToolBodyUnguarded(res) ==
    IF res.kind = "exception" THEN [res EXCEPT !.kind = "raised"] ELSE res

\* try: ... return context / except Exception as e: return f"Error ...: {e}"
ToolBody(res) ==
    IF res.kind = "exception" THEN [res EXCEPT !.kind = "error"] ELSE res

MedicalTools ==
    {"query_medical_knowledge", "get_treatment_guidelines",
     "search_indian_health_data"}

\* the three tools that read the medical knowledge base
MedicalTool(t) ==
    /\ \E ctorOk \in BOOLEAN, buildOk \in BOOLEAN, dirMade \in BOOLEAN,
          queryOk \in BOOLEAN :
        LET g == get_medical_rag(ctorOk, buildOk, dirMade)
        IN  /\ medical_rag' = g.rag
            /\ persistDir' = g.dir
            /\ coll' = [coll EXCEPT !["medical_knowledge"] = g.med]
            /\ toolRet' = ToolBody(get_medical_context(g, queryOk))
    /\ toolCall' = t
    /\ UNCHANGED <<envVars, appVars, bmiVars, loaderVars, recVars, ui,
                   patient_indexer>>

\* find_similar_patients: get_patient_indexer(), then the indexer opens the
\* collection patient_data when it has no vector store, and searches it
FindSimilarPatients ==
    /\ \E ctorOk \in BOOLEAN, queryOk \in BOOLEAN :
        IF patient_indexer = "None" /\ ~ ctorOk
        THEN /\ toolRet' = ToolBody(Exc("patient_data", "EmbeddingError"))
             /\ UNCHANGED <<patient_indexer, persistDir, coll>>
        ELSE /\ patient_indexer' = "open"
             /\ persistDir' = TRUE
             /\ coll' = [coll EXCEPT !["patient_data"] =
                            IF patient_indexer = "open" THEN @ ELSE Opened(@)]
             /\ toolRet' = ToolBody(
                    IF ~ queryOk THEN Exc("patient_data", "EmbeddingError")
                    ELSE IF coll["patient_data"] = "built"
                    THEN Results("patient_data")
                    ELSE NotFound("patient_data"))
    /\ toolCall' = "find_similar_patients"
    /\ UNCHANGED <<envVars, appVars, bmiVars, loaderVars, recVars, ui, medical_rag>>

\* python patient_data_indexer.py: index_patients in a process of its own
IndexPatients ==
    /\ persistDir' = TRUE
    /\ coll' = [coll EXCEPT !["patient_data"] = "built"]
    /\ UNCHANGED <<envVars, appVars, bmiVars, loaderVars, recVars, ui, medical_rag,
                   patient_indexer, toolCall, toolRet>>

\* python medical_knowledge_rag.py: create_medical_knowledge_base likewise
CreateMedicalKnowledgeBase ==
    /\ persistDir' = TRUE
    /\ coll' = [coll EXCEPT !["medical_knowledge"] = "built"]
    /\ UNCHANGED <<envVars, appVars, bmiVars, loaderVars, recVars, ui, medical_rag,
                   patient_indexer, toolCall, toolRet>>

\* a process start: the directory is absent, or is there with any of its
\* collections absent, empty or built
InitRag ==
    /\ AppIdle
    /\ bmiArgs = NoBmiArgs
    /\ bmiRet = NoBmiRet
    /\ LoaderIdle
    /\ persistDir \in BOOLEAN
    /\ coll \in [Corpora -> {"absent", "empty", "built"}]
    /\ ~ persistDir => coll = [c \in Corpora |-> "absent"]
    /\ medical_rag = "None"
    /\ patient_indexer = "None"
    /\ toolCall = "none"
    /\ toolRet = NoToolRet
    /\ RecIdle
    /\ UiIdle

NextRag ==
    \/ \E t \in MedicalTools : MedicalTool(t)
    \/ FindSimilarPatients
    \/ IndexPatients
    \/ CreateMedicalKnowledgeBase

SpecRag == InitRag /\ [][NextRag]_vars

\* ------------------------------------------------- the patient dictionary
\* a string of two lines, such as a name typed with a line break
TwoLineStr == [tag |-> "str", val |-> 2]

RecKeys == {"patient_id", "patient_name", "age", "bmi"}
RecValues == {Num(35), TextStr, TwoLineStr, NoneVal}

\* key.replace('_', ' ').title() of the keys above
TitlePairs ==
    {<<"patient_id", "Patient Id">>, <<"patient_name", "Patient Name">>,
     <<"age", "Age">>, <<"bmi", "Bmi">>}
Title(key) == (CHOOSE p \in TitlePairs : p[1] = key)[2]

Item(k, v) == [key |-> k, value |-> v]

\* dictionaries: items in insertion order, no key twice
PatientDicts ==
    UNION {{d \in [1..n -> {Item(k, v) : k \in RecKeys, v \in RecValues}] :
                \A i \in 1..n, j \in 1..n : d[i].key = d[j].key => i = j} :
           n \in 0..MaxFields}

\* number of lines of str(value)
StrLines(v) == IF v.tag = "str" /\ v.val > 1 THEN v.val ELSE 1

\* the lines of f"- {formatted_key}: {value}": the label and the first line
\* of the value, then the further lines of the value
ItemLines(item) ==
    [n \in 1..StrLines(item.value) |->
        [label |-> IF n = 1 THEN Title(item.key) ELSE "",
         value |-> item.value, part |-> n]]

\* for key, value in data.items(): formatted.append(...); "\n    ".join(...)
RECURSIVE format_patient_data(_)
format_patient_data(data) ==
    IF data = <<>> THEN <<>>
    ELSE ItemLines(Head(data)) \o format_patient_data(Tail(data))

\* data.get(key, default)
DictGet(data, key, default) ==
    IF \E i \in 1..Len(data) : data[i].key = key
    THEN data[CHOOSE i \in 1..Len(data) : data[i].key = key].value
    ELSE default

\* the columns with the patient name among them
LogColumnsWithName ==
    {"patient_id", "patient_name", "age", "gender", "height_cm", "weight_kg",
     "bmi", "bmi_category", "state", "residence", "wealth_index",
     "diet_preference", "physical_activity", "daily_steps", "smoking_status",
     "alcohol_consumption"}

\* fieldnames of the DictWriter, the timestamp aside
LogColumns ==
    {"patient_id", "age", "gender", "height_cm", "weight_kg", "bmi",
     "bmi_category", "state", "residence", "wealth_index", "diet_preference",
     "physical_activity", "daily_steps", "smoking_status",
     "alcohol_consumption"}

\* the key of patient_data each column is read from
LogKey(c) ==
    IF c = "residence" THEN "residence_type"
    ELSE IF c = "diet_preference" THEN "dietary_preference"
    ELSE c

\* log_entry: every column is a .get of the dictionary; patient_id defaults
\* to 'unknown' (a string), the others to ''
LogEntry(data, ts) ==
    [c \in LogColumns \cup {"timestamp"} |->
        IF c = "timestamp" THEN Num(ts)
        ELSE DictGet(data, LogKey(c),
                     IF c = "patient_id" THEN TextStr ELSE EmptyStr)]

\* a logger that drops the name from the dictionary it was given
log_patient_input_PopName(data, ts) ==
    [NoRecRet EXCEPT !.row = LogEntry(data, ts),
                     !.after = SelectSeq(data,
                                   LAMBDA it : it.key # "patient_name")]

\* log_patient_input: the row appended to logs/patient_usage.csv, and the
\* dictionary afterwards
log_patient_input(data, ts) ==
    [NoRecRet EXCEPT !.row = LogEntry(data, ts), !.after = data]

FormatPatientDataCall ==
    /\ recCall.op = "none"
    /\ recCall' = [recCall EXCEPT !.op = "format_patient_data"]
    /\ recRet' = [NoRecRet EXCEPT !.lines = format_patient_data(recCall.data),
                                  !.after = recCall.data]
    /\ UNCHANGED <<envVars, appVars, bmiVars, loaderVars, ragVars, ui>>

LogPatientInputCall ==
    /\ recCall.op = "none"
    /\ recCall' = [recCall EXCEPT !.op = "log_patient_input"]
    /\ \E ts \in {1, 2} : recRet' = log_patient_input(recCall.data, ts)
    /\ UNCHANGED <<envVars, appVars, bmiVars, loaderVars, ragVars, ui>>

\* create_treatment_plan up to Crew(...): the banner reads the dictionary with
\* .get, and f"{patient_data.get('bmi'):.1f}" raises TypeError when bmi is not
\* a number; then each task constructor renders the dictionary
CreateTreatmentPlanCall ==
    /\ recCall.op = "none"
    /\ recCall' = [recCall EXCEPT !.op = "create_treatment_plan"]
    /\ recRet' =
        IF DictGet(recCall.data, "bmi", NoneVal).tag # "num"
        THEN [NoRecRet EXCEPT !.error = "TypeError", !.after = recCall.data]
        ELSE [NoRecRet EXCEPT !.lines = format_patient_data(recCall.data),
                              !.after = recCall.data]
    /\ UNCHANGED <<envVars, appVars, bmiVars, loaderVars, ragVars, ui>>

InitRecord ==
    /\ AppIdle
    /\ bmiArgs = NoBmiArgs
    /\ bmiRet = NoBmiRet
    /\ LoaderIdle
    /\ RagIdle
    /\ UiIdle
    /\ \E d \in PatientDicts : recCall = [op |-> "none", data |-> d]
    /\ recRet = NoRecRet

NextRecord ==
    \/ FormatPatientDataCall
    \/ LogPatientInputCall
    \/ CreateTreatmentPlanCall

SpecRecord == InitRecord /\ [][NextRecord]_vars

\* ------------------------------------- lookups and retrievals in one process
\* get_dataset_stats: counts and means over df
GetDatasetStats ==
    /\ ldRet = NoLdRet
    /\ ldCall' = [NoLdCall EXCEPT !.op = "stats", !.limit = Len(df)]
    /\ ldRet' = LdOk({})
    /\ UNCHANGED <<envVars, appVars, bmiVars, ragVars, recVars, ui, df>>

Lookup ==
    \/ GetRandomPatient
    \/ GetPatientByIndex
    \/ GetPatientsByCriteria
    \/ GetDatasetStats

\* a tool call made by an agent, once the lookup before it has returned
Retrieval ==
    /\ ldRet = NoLdRet
    /\ \/ \E t \in MedicalTools : MedicalTool(t)
       \/ FindSimilarPatients

\* PatientDataLoader() has read the file; the Chroma directory is as a former
\* process left it
InitShared ==
    /\ AppIdle
    /\ bmiArgs = NoBmiArgs
    /\ bmiRet = NoBmiRet
    /\ df \in UNION {[1..n -> RawRows] : n \in 0..MaxRowsShared}
    /\ ldCall = NoLdCall
    /\ ldRet = NoLdRet
    /\ persistDir \in BOOLEAN
    /\ coll \in [Corpora -> {"absent", "empty", "built"}]
    /\ ~ persistDir => coll = [c \in Corpora |-> "absent"]
    /\ medical_rag = "None"
    /\ patient_indexer = "None"
    /\ toolCall = "none"
    /\ toolRet = NoToolRet
    /\ RecIdle
    /\ UiIdle

NextShared ==
    \/ Lookup
    \/ LoaderReturn
    \/ Retrieval

SpecShared == InitShared /\ [][NextShared]_vars

\* ================================================================== claims
\* a stage has started once its agent was handed its input
Started(r, s) == stageInput[r][s] # {}

\* every fragment of a value the caller was given
Delivered(r) ==
    UNION {yielded[r][k].text \cup yielded[r][k].logs \cup yielded[r][k].food :
            k \in 1..Len(yielded[r])}

LastYield(r) == yielded[r][Len(yielded[r])]

\* C1: in every run a stage starts only after every stage it depends on has
\* produced its output: analysis before diet, medical and fitness, and all
\* four before coordination.
C1_StagesAfterDependencies ==
    \A r \in Runs : \A s \in Stages :
        Started(r, s) => Deps(s) \subseteq outputs[r]

C1_Witness ==
    \E r \in Runs :
        /\ pc[r] = "running"
        /\ Started(r, "coordination")
        /\ outputs[r] = Stages \ {"coordination"}

\* C2: the prompt rendered for the diet, medical and fitness tasks contains
\* the text of the analysis output of the run.
C2_MiddlePromptHasAnalysis ==
    \A r \in Runs : \A s \in MiddleStages :
        Started(r, s) => Out(r, "analysis") \in tasks[r][s]

\* C3: the prompt rendered for the coordination task contains the outputs of
\* the four stages before it.
C3_CoordinationPromptHasAll ==
    \A r \in Runs :
        Started(r, "coordination") =>
            {Out(r, s) : s \in Deps("coordination")}
                \subseteq tasks[r]["coordination"]

\* C4: the input given to a middle stage never contains the output of
\* another middle stage.
C4_MiddleInputsIsolated ==
    \A r \in Runs : \A s \in MiddleStages : \A t \in MiddleStages \ {s} :
        Out(r, t) \notin stageInput[r][s]

\* C5: when the LLM invocation of a stage fails the run is aborted: no later
\* stage is started, no report is delivered, and nothing of the outputs of
\* the finished stages reaches the caller.
C5_FailureAbortsRun ==
    \A r \in Runs :
        failedAt[r] \in Stages =>
            /\ \A i \in 1..Len(TaskOrder) :
                   Started(r, TaskOrder[i]) => i <= llmCalls[r]
            /\ TaskOrder[llmCalls[r]] = failedAt[r]
            /\ \A k \in 1..Len(yielded[r]) : yielded[r][k].kind # "summary"
            /\ \A f \in Delivered(r) : f.kind \notin {"output", "print"}
            /\ pc[r] = "done" => LastYield(r).kind = "error"

C5_Witness ==
    \E r \in Runs :
        /\ pc[r] = "done"
        /\ failedAt[r] = "medical_evaluation"
        /\ outputs[r] = {"analysis", "diet_plan"}

\* C6: the error the caller receives after a failed LLM invocation names the
\* stage that failed.
C6_ErrorNamesStage ==
    \A r \in Runs :
        (pc[r] = "done" /\ failedAt[r] \in Stages) =>
            Lit(failedAt[r]) \in LastYield(r).text \cup LastYield(r).logs

\* C7: two calls running at the same time do not affect each other: the agent
\* log delivered with a report is the text the call itself wrote, and
\* self.crew, once assigned, is not overwritten by another call.
C7_RunsIndependent ==
    /\ \A r \in Runs : \A k \in 1..Len(yielded[r]) :
           yielded[r][k].kind = "summary" =>
               yielded[r][k].logs = {Printed(r)}
    /\ \A r \in Runs : pc[r] = "creating" => crew = 0

\* the form values the claim C8 calls invalid
InvalidForm(f) ==
    \/ f.height_cm.tag = "none" \/ f.weight.tag = "none" \/ f.age.tag = "none"
    \/ f.height_cm.tag = "num" /\ f.height_cm.val <= 0
    \/ f.weight.tag = "num" /\ f.weight.val <= 0
    \/ f.age.tag = "num" /\ f.age.val < 18

\* C8: a call with invalid patient data ends with exactly one result for
\* the caller, an error.
C8_InvalidDataGetsError ==
    \A r \in Runs :
        (pc[r] = "done" /\ InvalidForm(form[r])) =>
            /\ Len(yielded[r]) = 1
            /\ yielded[r][1].kind = "error"

\* C9: when the form values are rejected or a task template cannot be
\* rendered, no LLM invocation has been made in that run.
C9_NoCallBeforeAbort ==
    \A r \in Runs :
        (returned[r] # "none" \/ failedAt[r] \in {"validation", "render"})
            => llmCalls[r] = 0

C9_Witness ==
    \E r \in Runs, q \in Runs :
        /\ pc[r] = "done" /\ failedAt[r] = "render"
        /\ brokenTask = "coordination"
        /\ pc[q] = "done" /\ returned[q] = "invalid_values"

Unusable(x) == x.tag # "num" \/ x.val <= 0

\* C11: when the weight or the height is zero, negative, missing, empty or
\* not a number, calculate_bmi returns the marker (0.0, "Invalid").
C11_UnusableGivesInvalid ==
    (/\ bmiRet # NoBmiRet
     /\ Unusable(bmiArgs.weight_kg) \/ Unusable(bmiArgs.height_cm))
        => bmiRet = InvalidBmi

\* a record passes a supplied filter when its decoded label is the filter
\* value, letter case aside
Passes(p, c) ==
    /\ c.state # "" => Lower(p.state) = Lower(c.state)
    /\ c.residence_type # "" => Lower(p.residence_type) = Lower(c.residence_type)
    /\ c.bmi_category # "" => Lower(p.bmi_category) = Lower(c.bmi_category)
    /\ c.wealth_index # "" => Lower(p.wealth_index) = Lower(c.wealth_index)

Matches(c) ==
    {i \in 1..Len(df) : Passes(FormatPatientData(i - 1, df[i]), c)}

\* C12: get_patients_by_criteria returns only records that pass every
\* supplied filter, all of them when at most limit pass and limit of them
\* otherwise.
C12_CriteriaExactMatch ==
    ldCall.op = "by_criteria" =>
        /\ ldRet.kind = "ok"
        /\ \A p \in ldRet.patients : Passes(p, ldCall)
        /\ Cardinality(ldRet.patients) =
               (IF Cardinality(Matches(ldCall)) <= ldCall.limit
                THEN Cardinality(Matches(ldCall)) ELSE ldCall.limit)

\* C13: get_patients_by_criteria with filters that no record passes returns
\* an empty sequence and does not raise.
C13_NoMatchGivesEmpty ==
    (ldCall.op = "by_criteria" /\ Matches(ldCall) = {}) =>
        ldRet = LdOk({})

\* C14: get_patient_by_index returns the record of row i for 0 <= i < n and
\* fails with the out-of-range error, and no record, for every other index.
C14_ByIndexTotalOnRange ==
    ldCall.op = "by_index" =>
        IF 0 <= ldCall.index /\ ldCall.index < Len(df)
        THEN /\ ldRet.kind = "ok"
             /\ \E p \in ldRet.patients :
                    /\ ldRet.patients = {p}
                    /\ p.patient_id = ldCall.index
                    /\ p = FormatPatientData(ldCall.index,
                                             df[ldCall.index + 1])
        ELSE ldRet = LdError("out of range")

C14_Witness ==
    /\ ldCall.op = "by_index"
    /\ Len(df) = 2
    /\ ldCall.index = Len(df)
    /\ ldRet.kind = "error"

\* C15: decoding a row never fails on its categorical codes, in the data
\* loader and in the patient indexer: an unmapped or missing code gives the
\* label "Unknown".
C15_DecodingNeverFails ==
    (/\ ldCall.op \in {"by_index", "random", "create_patient_documents"}
     /\ Len(df) > 0
     /\ ldCall.op = "by_index" => ldCall.index \in 0..(Len(df) - 1))
        => /\ ldRet.kind = "ok"
           /\ \A p \in ldRet.patients :
                  LET row == df[p.patient_id + 1]
                  IN  /\ row.State \notin 1..36 => p.state = "Unknown"
                      /\ row.Urban_Rural \notin 1..2
                             => p.residence_type = "Unknown"
                      /\ row.Wealth_Index \notin 1..5
                             => p.wealth_index = "Unknown"

\* C16: when a task template references a placeholder the caller does not
\* supply, rendering raises the missing-key error and the run is aborted: no
\* crew is started on a partly rendered prompt and the caller gets the error.
C16_MissingPlaceholderAborts ==
    \A r \in Runs :
        (\E s \in Stages : "unsupplied" \in Template(s, brokenTask)) =>
            /\ pc[r] \notin {"kickoff", "running", "returned", "restored"}
            /\ \A s \in Stages : ~ Started(r, s)
            /\ \A s \in Stages :
                   "unsupplied" \in Template(s, brokenTask) => tasks[r][s] = {}
            /\ pc[r] \in {"raised", "caught"} =>
                   err[r] = "KeyError" /\ failedAt[r] = "render"
            /\ (pc[r] = "done" /\ failedAt[r] = "render") =>
                   LastYield(r) = ErrorMsg("KeyError")

C16_Witness ==
    \E r \in Runs :
        /\ brokenTask = "diet_plan"
        /\ pc[r] = "done"
        /\ failedAt[r] = "render"
        /\ tasks[r]["analysis"] # {}
        /\ LastYield(r).kind = "error"

\* C19: the report of a successful run is exactly the output of the
\* coordination stage: the summary the caller receives holds that output and
\* the output of no other stage.
C19_ReportIsCoordinationOutput ==
    \A r \in Runs : \A k \in 1..Len(yielded[r]) :
        yielded[r][k].kind = "summary" =>
            /\ {f \in yielded[r][k].text : f.kind = "output"} =
                   {Out(r, "coordination")}
            /\ "coordination" \in outputs[r]

C19_Witness ==
    \E r \in Runs :
        /\ pc[r] = "done"
        /\ Len(yielded[r]) > 0
        /\ LastYield(r).kind = "summary"
        /\ Out(r, "coordination") \in LastYield(r).text

\* the order of the stages the claim C20 names
C20_Order ==
    <<"analysis", "diet_plan", "medical_evaluation", "fitness_plan",
      "coordination">>

\* C20: in a run every stage is executed at most once and in the order
\* analysis, diet, medical, fitness, coordination; a run without a failing
\* invocation has one output per stage when it completes.
C20_EachStageOnceInOrder ==
    \A r \in Runs :
        /\ llmCalls[r] <= Len(C20_Order)
        /\ {s \in Stages : Started(r, s)} =
               {C20_Order[i] : i \in 1..llmCalls[r]}
        /\ outputs[r] = {C20_Order[i] : i \in 1..stageIdx[r]}
        /\ llmCalls[r] - stageIdx[r] \in {0, 1}
        /\ (llmCalls[r] > 0 /\ failedAt[r] = "none" /\ pc[r] = "done") =>
               /\ llmCalls[r] = Len(C20_Order)
               /\ outputs[r] = Stages
               /\ LastYield(r).kind = "summary"

C20_Witness ==
    \E r \in Runs :
        /\ pc[r] = "done"
        /\ failedAt[r] = "none"
        /\ llmCalls[r] = 5
        /\ outputs[r] = Stages

\* the corpus a tool reads
CorpusOf(t) == IF t \in MedicalTools THEN "medical_knowledge" ELSE "patient_data"

\* C17: a retrieval against a corpus that was never built ends in an error;
\* it does not succeed, with results or with none, on a collection that is
\* empty or is not the corpus.
C17_UnbuiltCorpusFails ==
    (toolCall # "none" /\ coll[CorpusOf(toolCall)] # "built") =>
        toolRet.kind \in {"error", "raised"}

C21_RunTerminates == (pc[1] \notin {"idle", "done"}) ~> (pc[1] = "done")

\* C22: the patient dictionary is the same after format_patient_data,
\* log_patient_input and create_treatment_plan as it was before the call.
C22_RecordNotMutated ==
    recCall.op # "none" => recRet.after = recCall.data

C22_Witness ==
    /\ recCall.op = "log_patient_input"
    /\ Len(recCall.data) = 3
    /\ DictGet(recCall.data, "patient_name", NoneVal) = TextStr
    /\ recRet.after = recCall.data

\* C24: format_patient_data renders exactly one line per field, in the order
\* of the fields, each with the Title Case label of its key and its value.
C24_OneLinePerField ==
    recCall.op = "format_patient_data" =>
        /\ Len(recRet.lines) = Len(recCall.data)
        /\ \A i \in 1..Len(recRet.lines) :
               /\ recRet.lines[i].label = Title(recCall.data[i].key)
               /\ recRet.lines[i].value = recCall.data[i].value

\* the dictionary with its patient_name set to v, where it has one
WithName(data, v) ==
    [i \in 1..Len(data) |->
        IF data[i].key = "patient_name" THEN Item("patient_name", v)
        ELSE data[i]]

\* C26: the logged row does not depend on the patient name: a dictionary
\* that differs only in patient_name gives the same row, the timestamp aside,
\* and no column is read from patient_name.
C26_LogRowWithoutName ==
    recCall.op = "log_patient_input" =>
        /\ \A c \in DOMAIN recRet.row : LogKey(c) # "patient_name"
        /\ \A v \in RecValues : \A c \in DOMAIN recRet.row \ {"timestamp"} :
               recRet.row[c] =
                   LogEntry(WithName(recCall.data, v), 1)[c]

C26_Witness ==
    /\ recCall.op = "log_patient_input"
    /\ DictGet(recCall.data, "patient_name", NoneVal) = TextStr
    /\ DictGet(recCall.data, "patient_id", NoneVal) = Num(35)
    /\ recRet.row["patient_id"] = Num(35)

\* C23: no lookup and no retrieval changes the rows of the dataset; a step
\* that hands back a lookup result changes no collection; a retrieval through
\* a singleton that has its collection open leaves the contents of that
\* collection as they are, and a retrieval never touches the collection of
\* the other corpus.
C23_LoadedDataReadOnly ==
    [][/\ df' = df
       /\ ldRet' # ldRet => coll' = coll
       /\ medical_rag = "open" =>
              coll'["medical_knowledge"] = coll["medical_knowledge"]
       /\ patient_indexer = "open" =>
              coll'["patient_data"] = coll["patient_data"]
       /\ toolCall' \in MedicalTools =>
              coll'["patient_data"] = coll["patient_data"]
       /\ toolCall' = "find_similar_patients" =>
              coll'["medical_knowledge"] = coll["medical_knowledge"]]_vars

C23_Witness ==
    /\ Len(df) = 1
    /\ ldCall.op = "by_criteria"
    /\ ldRet.patients # {}
    /\ medical_rag = "open"
    /\ patient_indexer = "open"
    /\ toolRet.kind = "results"

\* C25: the progress checkpoints of a run never decrease, the 100% checkpoint
\* is reported only once all stages have produced their output, and a run
\* that fails never reports it.
C25_ProgressMonotone ==
    \A r \in Runs :
        /\ \A i \in 1..Len(progress[r]), j \in 1..Len(progress[r]) :
               i < j => progress[r][i] <= progress[r][j]
        /\ (\E i \in 1..Len(progress[r]) : progress[r][i] = 100) =>
               /\ outputs[r] = Stages
               /\ failedAt[r] = "none"
               /\ progress[r][Len(progress[r])] = 100
        /\ pc[r] \in {"restored", "done"} /\ outputs[r] = Stages =>
               progress[r] = <<5, 10, 30, 100>>

C25_Witness ==
    \E r \in Runs, q \in Runs :
        /\ pc[r] = "done" /\ progress[r] = <<5, 10, 30, 100>>
        /\ pc[q] = "done" /\ failedAt[q] = "coordination"
        /\ progress[q] = <<5, 10, 30>>

\* C27: a tool never gets from get_medical_rag an instance whose vector
\* store is not initialized; such an instance shows as the ValueError
\* "Vector store not initialized" of query_medical_knowledge.
C27_ReturnedRagIsInitialized ==
    ~ (/\ toolCall \in MedicalTools
       /\ medical_rag = "unloaded"
       /\ toolRet.exc = "ValueError")

C29_ReturnedPairSelfConsistent ==
    LET w == bmiArgs.weight_kg
        h == bmiArgs.height_cm
        b == bmiRet.bmi100
        c == bmiRet.category
    IN  (/\ bmiRet # NoBmiRet
         /\ w.tag = "num" /\ w.val > 0
         /\ h.tag = "num" /\ h.val > 0) =>
            /\ c = "Underweight" => b < 1850
            /\ c = "Normal" => (1850 <= b /\ b < 2300)
            /\ c = "Overweight" => (2300 <= b /\ b < 2750)
            /\ c = "Obese" => 2750 <= b

\* ============================================================ the input form
\* round(n / d, 1 decimal) for a quotient already scaled to tenths; an exact
\* tie is decided by the binary value, as in RoundBmi
RoundQuot(n, d, tie) ==
    LET fl == n \div d
        rem == n % d
    IN  IF 2 * rem < d THEN fl
        ELSE IF 2 * rem > d THEN fl + 1
        ELSE fl + tie

\* cm / 2.54 split into whole feet and inches rounded to one decimal
cm_to_feet_inches(cm, tie) ==
    IF cm.tag = "none" \/ cm.val <= 0 THEN <<0, 0>>
    ELSE LET feet == (cm.val * 10) \div 3048
         IN  <<feet, RoundQuot(cm.val * 100 - 30480 * feet, 254, tie)>>

\* an empty Feet or Inches field counts as 0
feet_inches_to_cm(feet, inches, tie) ==
    LET f == IF feet.tag = "none" THEN 0 ELSE feet.val
        i == IF inches.tag = "none" THEN 0 ELSE inches.val
    IN  RoundQuot((f * 120 + i) * 254, 100, tie)

update_from_feet(feet, inches, tie) == Num(feet_inches_to_cm(feet, inches, tie))

\* calculate_bmi takes its numbers through weight / height^2 only: a weight
\* in hundredths of a kilogram with a height in tenths of a centimetre gives
\* the value for that weight in kilograms and that height in centimetres
Hundredths(x) == IF x.tag = "num" THEN Num(10 * x.val) ELSE x

\* the value and the category written into the BMI panel
update_bmi_display(weight, height_cm, tie) ==
    IF ~ Truthy(weight) \/ ~ Truthy(height_cm) THEN InvalidBmi
    ELSE calculate_bmi(Hundredths(weight), height_cm, tie)

\* values typed into the fields, inside the limits the fields accept, and the
\* weight and height of the records
\* get_random_patient returns
TypedWeights == {NoneVal, Num(300), Num(600), Num(750), Num(905)}
TypedFeet == {NoneVal, Num(4), Num(5), Num(6)}
TypedInches == {NoneVal, Num(0), Num(30), Num(65), Num(119)}
RecordWeights == {NoneVal, Num(523), Num(750)}
RecordHeights == {NoneVal, Num(1524), Num(1600), Num(1737)}

Shown(d) == [ui EXCEPT !.bmi100 = d.bmi100, !.category = d.category]

\* weight_input.change
WeightChange ==
    /\ \E w \in TypedWeights \ {ui.weight10}, tie \in {0, 1} :
           ui' = [Shown(update_bmi_display(w, ui.height_cm10, tie))
                      EXCEPT !.weight10 = w]
    /\ UNCHANGED <<envVars, appVars, bmiVars, loaderVars, ragVars, recVars>>

\* feet_input.change: both listeners
FeetChange ==
    /\ \E f \in TypedFeet \ {ui.feet}, tc \in {0, 1}, tb \in {0, 1} :
           LET cm == update_from_feet(f, ui.inches10, tc)
           IN  ui' = [Shown(update_bmi_display(ui.weight10, cm, tb))
                          EXCEPT !.feet = f, !.height_cm10 = cm]
    /\ UNCHANGED <<envVars, appVars, bmiVars, loaderVars, ragVars, recVars>>

\* inches_input.change: both listeners
InchesChange ==
    /\ \E i \in TypedInches \ {ui.inches10}, tc \in {0, 1}, tb \in {0, 1} :
           LET cm == update_from_feet(ui.feet, i, tc)
           IN  ui' = [Shown(update_bmi_display(ui.weight10, cm, tb))
                          EXCEPT !.inches10 = i, !.height_cm10 = cm]
    /\ UNCHANGED <<envVars, appVars, bmiVars, loaderVars, ragVars, recVars>>

\* random_btn.click: load_random writes the weight, the height, the panel,
\* the feet and the inches of one record.  Whether the change listeners of
\* the fields then run on the written values is the framework's choice; when
\* they do, the height becomes the one the feet and inches convert back to.
LoadRandom ==
    /\ \E w \in RecordWeights, h \in RecordHeights, listeners \in BOOLEAN,
          ti \in {0, 1}, tc \in {0, 1}, tb \in {0, 1} :
           LET fi == cm_to_feet_inches(h, ti)
               feet == Num(fi[1])
               inches == Num(fi[2])
               cm == IF listeners THEN update_from_feet(feet, inches, tc)
                     ELSE h
               d == update_bmi_display(w, cm, tb)
           IN  ui' = [weight10 |-> w, feet |-> feet, inches10 |-> inches,
                      height_cm10 |-> cm, bmi100 |-> d.bmi100,
                      category |-> d.category]
    /\ UNCHANGED <<envVars, appVars, bmiVars, loaderVars, ragVars, recVars>>

NextForm == WeightChange \/ FeetChange \/ InchesChange \/ LoadRandom

SpecForm == Init /\ [][NextForm]_vars

\* C30: in every state of the input form, the initial one included, the BMI
\* value and the category of the panel are what calculate_bmi returns for
\* the weight and the height the form holds.
C30_PanelShowsCalculateBmi ==
    \E tie \in {0, 1} :
        [bmi100 |-> ui.bmi100, category |-> ui.category]
            = calculate_bmi(Hundredths(ui.weight10), ui.height_cm10, tie)

====
